---- MODULE Spec2Model ----
(***************************************************************************)
(* Expense tracker back end: the REST handlers of routes/expenses.js,      *)
(* routes/auth.js, routes/users.js and routes/audit.js over the three      *)
(* tables users, expenses and audit_logs.  Every request is one action:    *)
(* the middleware chain, the handler's database calls and its response.    *)
(***************************************************************************)
EXTENDS Integers, Sequences, FiniteSets, TLC

\* ---------------------------------------------------------------- bounds
MaxMutations == 1    \* requests that reach their database writes
MaxInflight == 2     \* overlapping user requests that get past their checks
MaxCalls == 3        \* calls of checkAuth, login and logout that the client starts

\* ------------------------------------------------------- program constants
\* amounts are counted in thousandths of a rupee
MinAmount == 10
MaxAmount == 100000000
DefaultLimit == 20
MaxLimit == 100
DefaultDays == 30         \* GET /api/analytics/summary: days
DefaultMonths == 6        \* GET /api/analytics/trends: months
DefaultSpenders == 5      \* GET /api/analytics/top-spenders: limit
SummarySpenders == 5      \* GET /api/analytics/summary: take of the top spenders
Today == 2                \* new Date(), on the day scale of the expense dates
MinPasswordLength == 6

VARIABLES
    users,        \* table users:       id -> [email, name, password, role]
    expenses,     \* table expenses:    id -> [userId, amount, category, date, notes,
                  \*                           status, rejectionReason, receiptUrl]
    auditLogs,    \* table audit_logs:  set of [id, action, description, userId, timestamp]
    nextUserId,   \* next fresh user id
    nextExpenseId,\* next fresh expense id
    auditSeq,     \* next fresh audit id, also the database clock of the entry
    tokens,       \* payloads of the bearer tokens signed so far
    mutations,    \* requests that have reached their database writes so far
    last,         \* the request just served and its response
    loggedOut,    \* history: the tokens a successful logout was called with
    inflight,     \* user requests that have passed their checks and not yet written
    client        \* the browser: localStorage token, AuthContext user and loading, pending calls

vars == <<users, expenses, auditLogs, nextUserId, nextExpenseId, auditSeq,
          tokens, mutations, last, loggedOut, inflight, client>>

\* the ids a request may name: every id in use and the next fresh one
UserIds == 1..(2 + MaxMutations)
ExpenseIds == 1..(2 + MaxMutations)

Roles == {"EMPLOYEE", "ADMIN"}
Categories == {"TRAVEL", "FOOD", "EQUIPMENT", "OFFICE_SUPPLIES", "SOFTWARE", "TRAINING", "OTHER"}

NoToken == [userId |-> 0, email |-> "", role |-> "NONE"]
NoUser == [id |-> 0, email |-> "", role |-> "NONE"]
NoBody == [amount |-> "", category |-> "", date |-> 0, notes |-> "", file |-> FALSE,
           status |-> "", userId |-> 0]
NoFilter == [category |-> "", status |-> "", startDate |-> 0, endDate |-> 0]
NoUserBody == [email |-> "", password |-> "", name |-> "", role |-> ""]
NoAnalytics == [kind |-> "none"]
NoQuery == [category |-> "", status |-> "", startDate |-> 0, endDate |-> 0, page |-> 0, limit |-> 0]

\* ------------------------------------------------------------ conversions
\* parseFloat on the amount strings the requests carry
parseFloat(s) ==
    CASE s = "0"         -> [nan |-> FALSE, v |-> 0]
      [] s = "-5"        -> [nan |-> FALSE, v |-> -5000]
      [] s = "0.001"     -> [nan |-> FALSE, v |-> 1]
      [] s = "0.01"      -> [nan |-> FALSE, v |-> 10]
      [] s = "75.25"     -> [nan |-> FALSE, v |-> 75250]
      [] s = "150.50"    -> [nan |-> FALSE, v |-> 150500]
      [] s = "100000"    -> [nan |-> FALSE, v |-> 100000000]
      [] s = "100000.01" -> [nan |-> FALSE, v |-> 100000010]
      [] OTHER           -> [nan |-> TRUE, v |-> 0]

\* bcrypt.hash / bcrypt.compare
bcryptHash(pw) == <<"bcrypt", pw>>
bcryptCompare(pw, hash) == hash = bcryptHash(pw)

\* the transform of the amount field: "ok", or the Error it throws
amountCheck(s) ==
    LET num == parseFloat(s) IN
    IF num.nan \/ num.v <= 0 THEN "Amount must be a positive number"
    ELSE IF num.v < MinAmount THEN "Amount must be at least 0.01"
    ELSE IF num.v > MaxAmount THEN "Amount cannot exceed 100,000"
    ELSE "ok"

\* expenseSchema.parse: "ok", "zod" (a ZodError) or "thrown" (the Error of the transform)
expenseSchemaParse(body) ==
    IF body.category \notin Categories \/ body.date = 0 THEN "zod"
    ELSE IF amountCheck(body.amount) # "ok" THEN "thrown"
    ELSE "ok"

\* ------------------------------------------------------------- middleware
\* (mutant) the role is taken from the token's payload
authenticateToken_TokenRole(tok) ==
    IF tok = NoToken \/ tok.userId \notin DOMAIN users THEN NoUser
    ELSE [id |-> tok.userId, email |-> users[tok.userId].email, role |-> tok.role]

\* authenticateToken: the verified token's user id is resolved against the users table
authenticateToken(tok) ==
    IF tok = NoToken \/ tok.userId \notin DOMAIN users THEN NoUser
    ELSE [id |-> tok.userId, email |-> users[tok.userId].email, role |-> users[tok.userId].role]

requireAdmin(user) == user.role = "ADMIN"
requireEmployee(user) == user.role \in {"EMPLOYEE", "ADMIN"}

\* the top-level error handler: an error passed to next() is answered as an internal error
errorHandler(err) == 500

\* ------------------------------------------------------------- responses
Response(op, user, code, target) ==
    [op |-> op, caller |-> user.id, role |-> user.role, code |-> code,
     target |-> target, rows |-> <<>>, body |-> NoBody, count |-> 0, dbOk |-> TRUE,
     error |-> "", message |-> "", token |-> NoToken, user |-> NoUser,
     email |-> "", password |-> "", query |-> NoQuery,
     status |-> "", userBody |-> NoUserBody, analytics |-> NoAnalytics]

\* ------------------------------------------------------------- audit log
Describe(text, ref, detail, reason) ==
    [text |-> text, ref |-> ref, detail |-> detail, reason |-> reason]

\* (mutant) the write replaces the actor's earlier rows instead of adding one
auditLogCreate_Upsert(logs, action, description, userId) ==
    {a \in logs : a.userId # userId}
        \cup {[id |-> auditSeq, action |-> action, description |-> description,
                userId |-> userId, timestamp |-> auditSeq]}

\* prisma.auditLog.create: one more row, id and timestamp set by the database
auditLogCreate(logs, action, description, userId) ==
    logs \cup {[id |-> auditSeq, action |-> action, description |-> description,
                userId |-> userId, timestamp |-> auditSeq]}

\* the audit write of a handler: it succeeds (dbOk) or the database refuses it
AuditWriteUpTo(cap, logs, dbOk, action, description, userId) ==
    /\ mutations < cap
    /\ mutations' = mutations + 1
    /\ IF dbOk
       THEN /\ auditLogs' = auditLogCreate(logs, action, description, userId)
            /\ auditSeq' = auditSeq + 1
       ELSE /\ auditLogs' = logs
            /\ auditSeq' = auditSeq

AuditWrite(logs, dbOk, action, description, userId) ==
    AuditWriteUpTo(MaxMutations, logs, dbOk, action, description, userId)

\* (mutant) a refused audit write undoes the primary write
afterCatch_RollsBack(committed, before) == before

\* the table after a handler's catch block: it answers and undoes nothing, so what the
\* primary write committed stays
afterCatch(committed, before) == committed

\* (mutant) a refused audit write is logged and the success response is sent all the same
statusAfterAudit_Swallowed(dbOk, success) == success

\* the status code of a handler whose audit write is inside its try block
statusAfterAudit(dbOk, success) == IF dbOk THEN success ELSE 500

\* the browser before anything is stored: localStorage.getItem('token') and user are null
NoClientToken == "null"
NoClientUser == "null"

\* no request is being served
Idle == last.op = "none"

\* the database after prisma/seed.js (both users, its first and last sample expense,
\* its first two audit rows) once each seeded user has logged in
Init ==
    /\ users = (1 :> [email |-> "admin@example.com", name |-> "Admin User",
                      password |-> bcryptHash("password123"), role |-> "ADMIN"])
            @@ (2 :> [email |-> "employee@example.com", name |-> "John Employee",
                      password |-> bcryptHash("password123"), role |-> "EMPLOYEE"])
    /\ expenses = (1 :> [userId |-> 2, amount |-> 150500, category |-> "TRAVEL", date |-> 1,
                         notes |-> "Uber rides for client meetings", status |-> "APPROVED",
                         rejectionReason |-> "", receiptUrl |-> ""])
               @@ (2 :> [userId |-> 2, amount |-> 250000, category |-> "TRAVEL", date |-> 2,
                         notes |-> "Flight tickets for conference", status |-> "REJECTED",
                         rejectionReason |-> "Conference attendance not pre-approved by management",
                         receiptUrl |-> ""])
    /\ auditLogs = {[id |-> 1, action |-> "USER_CREATED", userId |-> 1, timestamp |-> 1,
                     description |-> Describe("Admin user created", 0, "", "")],
                    [id |-> 2, action |-> "USER_CREATED", userId |-> 2, timestamp |-> 2,
                     description |-> Describe("Employee user created", 0, "", "")],
                    [id |-> 3, action |-> "USER_LOGIN", userId |-> 1, timestamp |-> 3,
                     description |-> Describe("logged in", 0, "admin@example.com", "")],
                    [id |-> 4, action |-> "USER_LOGIN", userId |-> 2, timestamp |-> 4,
                     description |-> Describe("logged in", 0, "employee@example.com", "")]}
    /\ nextUserId = 3
    /\ nextExpenseId = 3
    /\ auditSeq = 5
    /\ tokens = {[userId |-> 1, email |-> "admin@example.com", role |-> "ADMIN"],
                 [userId |-> 2, email |-> "employee@example.com", role |-> "EMPLOYEE"]}
    /\ mutations = 0
    /\ last = Response("none", NoUser, 0, 0)
    /\ loggedOut = {}
    /\ inflight = {}
    /\ client = [token |-> NoClientToken, user |-> NoClientUser, loading |-> TRUE,
                 started |-> 0, calls |-> {}]

\* the response has left the server; the next request can be served
ResponseSent ==
    /\ ~Idle
    /\ last' = Response("none", NoUser, 0, 0)
    /\ UNCHANGED <<users, expenses, auditLogs, nextUserId, nextExpenseId, auditSeq, tokens,
                         mutations, loggedOut, inflight, client>>

\* ------------------------------------------------------------ POST /login
LoginEmails == {"admin@example.com", "employee@example.com", "new@example.com", "not-an-email"}
LoginPasswords == {"password123", "secret1", ""}

isEmail(s) == s \notin {"", "not-an-email"}

\* loginSchema.parse
loginSchemaParse(email, password) == isEmail(email) /\ Len(password) >= 1

\* (mutant) the payload carries the user id only
jwtSign_IdOnly(user) == [userId |-> user.id, email |-> "", role |-> "NONE"]

\* jwt.sign: the payload the token carries
jwtSign(user) == [userId |-> user.id, email |-> user.email, role |-> user.role]

\* the response bodies of the login route
validationErrorResponse ==
    [code |-> 400, error |-> "Validation error", message |-> "Invalid request data"]

\* (mutant) an unknown email is answered as not found
noUserResponse_NotFound ==
    [code |-> 404, error |-> "User not found", message |-> "No user with this email"]

noUserResponse ==
    [code |-> 401, error |-> "Invalid credentials", message |-> "Email or password is incorrect"]

badPasswordResponse ==
    [code |-> 401, error |-> "Invalid credentials", message |-> "Email or password is incorrect"]

loginFailedResponse ==
    [code |-> 500, error |-> "Login failed", message |-> "An error occurred during login"]

\* const { password: _, ...userWithoutPassword } = user
userWithoutPassword(id) ==
    [id |-> id, email |-> users[id].email, name |-> users[id].name, role |-> users[id].role]

Login(email, password, dbOk) ==
    LET found == {id \in DOMAIN users : users[id].email = email}
        Refused(r) == [Response("login", NoUser, r.code, 0) EXCEPT
                          !.error = r.error, !.message = r.message,
                          !.email = email, !.password = password] IN
    /\ Idle
    /\ IF ~loginSchemaParse(email, password)
       THEN /\ last' = Refused(validationErrorResponse)
            /\ UNCHANGED <<users, expenses, auditLogs, nextUserId, nextExpenseId, auditSeq, tokens,
                         mutations, loggedOut, inflight, client>>
       ELSE IF found = {}
       THEN /\ last' = Refused(noUserResponse)
            /\ UNCHANGED <<users, expenses, auditLogs, nextUserId, nextExpenseId, auditSeq, tokens,
                         mutations, loggedOut, inflight, client>>
       ELSE LET id == CHOOSE i \in found : TRUE
                user == [id |-> id, email |-> users[id].email, role |-> users[id].role] IN
            IF ~bcryptCompare(password, users[id].password)
            THEN /\ last' = Refused(badPasswordResponse)
                 /\ UNCHANGED <<users, expenses, auditLogs, nextUserId, nextExpenseId, auditSeq, tokens,
                         mutations, loggedOut, inflight, client>>
            ELSE /\ AuditWrite(auditLogs, dbOk, "USER_LOGIN", Describe("logged in", 0, user.email, ""), id)
                 /\ tokens' = IF dbOk THEN tokens \cup {jwtSign(user)} ELSE tokens
                 /\ last' = IF dbOk
                            THEN [Response("login", user, 200, 0) EXCEPT
                                     !.message = "Login successful",
                                     !.user = userWithoutPassword(id),
                                     !.token = jwtSign(user),
                                     !.email = email, !.password = password]
                            ELSE [Response("login", user, 500, 0) EXCEPT
                                     !.dbOk = FALSE,
                                     !.error = loginFailedResponse.error,
                                     !.message = loginFailedResponse.message,
                                     !.email = email, !.password = password]
                 /\ UNCHANGED <<users, expenses, nextUserId, nextExpenseId, loggedOut, inflight, client>>

\* ----------------------------------------------------------- POST /logout
\* (mutant) logout revokes the token it was called with
tokensAfterLogout_Revoked(tok) == tokens \ {tok}

\* the tokens the server accepts after a logout: the handler keeps no revocation list
tokensAfterLogout(tok) == tokens

\* (mutant) a refusal that leaves an entry in the audit log
earlyReturn_Audited(user) ==
    /\ IF user = NoUser
       THEN UNCHANGED <<auditLogs, auditSeq>>
       ELSE /\ auditLogs' = auditLogCreate(auditLogs, "ACCESS_DENIED", Describe("", 0, "", ""), user.id)
            /\ auditSeq' = auditSeq + 1
    /\ UNCHANGED <<users, expenses, nextUserId, nextExpenseId, tokens, mutations, loggedOut, inflight, client>>

\* return res.status(...).json(...) ahead of every write of the handler: nothing is stored
earlyReturn(user) ==
    UNCHANGED <<users, expenses, auditLogs, nextUserId, nextExpenseId, auditSeq, tokens,
                mutations, loggedOut, inflight, client>>

Logout(tok, dbOk) ==
    LET user == authenticateToken(tok) IN
    /\ Idle
    /\ IF user = NoUser
       THEN /\ last' = Response("logout", NoUser, 401, 0)
            /\ earlyReturn(user)
       ELSE /\ AuditWrite(auditLogs, dbOk, "USER_LOGOUT", Describe("logged out", 0, user.email, ""), user.id)
            /\ last' = [Response("logout", user, IF dbOk THEN 200 ELSE 500, 0) EXCEPT
                           !.dbOk = dbOk,
                           !.message = IF dbOk THEN "Logout successful" ELSE "An error occurred during logout"]
            /\ tokens' = tokensAfterLogout(tok)
            /\ loggedOut' = IF dbOk THEN loggedOut \cup {tok} ELSE loggedOut
            /\ UNCHANGED <<users, expenses, nextUserId, nextExpenseId, inflight, client>>

\* ------------------------------------------------------ expense queries
\* (mutant) the role filter is left out
expensesWhere_NoRoleFilter(user, q) ==
    [userId |-> 0, category |-> q.category, status |-> q.status,
     startDate |-> q.startDate, endDate |-> q.endDate]

\* the where clause of GET /api/expenses: the role filter first, then the query filters
expensesWhere(user, q) ==
    [userId |-> IF user.role = "EMPLOYEE" THEN user.id ELSE 0,
     category |-> q.category, status |-> q.status,
     startDate |-> q.startDate, endDate |-> q.endDate]

\* the where clause of GET /api/expenses/export: the query filters only
exportWhere(q) ==
    [userId |-> 0, category |-> q.category, status |-> q.status,
     startDate |-> q.startDate, endDate |-> q.endDate]

\* one row against a where clause (an absent key matches every row)
matches(e, where) ==
    /\ where.userId = 0 \/ e.userId = where.userId
    /\ where.category = "" \/ e.category = where.category
    /\ where.status = "" \/ e.status = where.status
    /\ where.startDate = 0 \/ e.date >= where.startDate
    /\ where.endDate = 0 \/ e.date <= where.endDate

\* prisma.expense.findMany / count: the ids of the rows a where clause selects
findManyIds(where) == {id \in DOMAIN expenses : matches(expenses[id], where)}

\* the orders the database may return ids in under ORDER BY key DESC
orderByDesc(ids, key) ==
    {s \in [1..Cardinality(ids) -> ids] :
        /\ \A i, j \in 1..Cardinality(ids) : i # j => s[i] # s[j]
        /\ \A i, j \in 1..Cardinality(ids) : i < j => key[s[i]] >= key[s[j]]}

\* skip / take of findMany
paginate(s, skip, take) ==
    IF skip >= Len(s) THEN <<>>
    ELSE SubSeq(s, skip + 1, IF skip + take < Len(s) THEN skip + take ELSE Len(s))

\* the projection of the returned rows kept in the response record
rowsOf(s) == [i \in 1..Len(s) |-> [id |-> s[i], userId |-> expenses[s[i]].userId]]

\* the sort keys: ids are handed out in creation order
createdAt == [id \in DOMAIN expenses |-> id]
dateOf == [id \in DOMAIN expenses |-> expenses[id].date]

\* ------------------------------------------------------ GET /api/expenses
\* query strings: the filters, page and limit ("" and 0 stand for an absent key)
ListQueries ==
    {[category |-> "", status |-> "", startDate |-> 0, endDate |-> 0, page |-> 1, limit |-> DefaultLimit],
     [category |-> "TRAVEL", status |-> "", startDate |-> 0, endDate |-> 0, page |-> 2, limit |-> 1],
     [category |-> "", status |-> "PENDING", startDate |-> 2, endDate |-> 0, page |-> 1, limit |-> 1],
     [category |-> "FOOD", status |-> "REJECTED", startDate |-> 0, endDate |-> 1, page |-> 1, limit |-> DefaultLimit],
     [category |-> "", status |-> "APPROVED", startDate |-> 0, endDate |-> 2, page |-> 0, limit |-> 1]}

\* expenseFilterSchema.parse: page and limit are at least 1, limit at most 100
expenseFilterSchemaParse(q) == q.page >= 1 /\ q.limit >= 1 /\ q.limit <= MaxLimit

GetExpenses(tok, q) ==
    LET user == authenticateToken(tok) IN
    /\ Idle
    /\ UNCHANGED <<users, expenses, auditLogs, nextUserId, nextExpenseId, auditSeq, tokens,
                         mutations, loggedOut, inflight, client>>
    /\ IF user = NoUser THEN last' = Response("getExpenses", NoUser, 401, 0)
       ELSE IF ~expenseFilterSchemaParse(q) THEN last' = Response("getExpenses", user, 400, 0)
       ELSE LET ids == findManyIds(expensesWhere(user, q)) IN
            \E s \in orderByDesc(ids, createdAt) :
                last' = [Response("getExpenses", user, 200, 0) EXCEPT
                            !.rows = rowsOf(paginate(s, (q.page - 1) * q.limit, q.limit)),
                            !.count = Cardinality(ids),
                            !.query = q]

\* -------------------------------------------------- GET /api/expenses/:id
\* (mutant) no ownership check
ownershipDenied_Never(user, expense) == FALSE

\* the ownership check shared by the single-expense handlers
ownershipDenied(user, expense) == user.role = "EMPLOYEE" /\ expense.userId # user.id

GetExpense(tok, id) ==
    LET user == authenticateToken(tok) IN
    /\ Idle
    /\ UNCHANGED <<users, expenses, auditLogs, nextUserId, nextExpenseId, auditSeq, tokens,
                         mutations, loggedOut, inflight, client>>
    /\ IF user = NoUser THEN last' = Response("getExpense", NoUser, 401, 0)
       ELSE IF id \notin DOMAIN expenses THEN last' = Response("getExpense", user, 404, id)
       ELSE IF ownershipDenied(user, expenses[id]) THEN last' = Response("getExpense", user, 403, id)
       ELSE last' = [Response("getExpense", user, 200, id) EXCEPT !.rows = rowsOf(<<id>>)]

\* ----------------------------------------------------- POST /api/expenses
\* multipart bodies: the form fields, whether a receipt file is attached, and the extra
\* fields status and userId a client may add ("" and 0 stand for an absent key)
ExpenseBodies ==
    {[amount |-> "75.25", category |-> "FOOD", date |-> 2, notes |-> "", file |-> TRUE,
      status |-> "APPROVED", userId |-> 1],
     [amount |-> "0.01", category |-> "TRAVEL", date |-> 1, notes |-> "Uber rides", file |-> FALSE,
      status |-> "", userId |-> 0],
     [amount |-> "0", category |-> "TRAVEL", date |-> 1, notes |-> "", file |-> FALSE,
      status |-> "", userId |-> 0],
     [amount |-> "100000.01", category |-> "FOOD", date |-> 2, notes |-> "", file |-> FALSE,
      status |-> "", userId |-> 0],
     [amount |-> "abc", category |-> "TRAVEL", date |-> 1, notes |-> "", file |-> FALSE,
      status |-> "", userId |-> 0],
     [amount |-> "150.50", category |-> "GIFTS", date |-> 1, notes |-> "", file |-> TRUE,
      status |-> "", userId |-> 0]}

receiptUrlOf(body) == IF body.file THEN "/uploads/receipt" ELSE ""

\* (mutant) the row is built from the whole body: a client picks status and owner
newExpense_FromBody(user, body) ==
    [userId |-> IF body.userId # 0 THEN body.userId ELSE user.id,
     amount |-> parseFloat(body.amount).v, category |-> body.category,
     date |-> body.date, notes |-> body.notes,
     status |-> IF body.status # "" THEN body.status ELSE "PENDING",
     rejectionReason |-> "", receiptUrl |-> receiptUrlOf(body)]

\* the row prisma.expense.create inserts; status and rejectionReason take the column defaults
newExpense(user, body) ==
    [userId |-> user.id, amount |-> parseFloat(body.amount).v, category |-> body.category,
     date |-> body.date, notes |-> body.notes, status |-> "PENDING",
     rejectionReason |-> "", receiptUrl |-> receiptUrlOf(body)]

CreateExpense(tok, body, dbOk) ==
    LET user == authenticateToken(tok)
        parsed == expenseSchemaParse(body)
        R(code) == [Response("createExpense", user, code, 0) EXCEPT !.body = body] IN
    /\ Idle
    /\ IF user = NoUser \/ ~requireEmployee(user) \/ parsed # "ok"
       THEN /\ last' = IF user = NoUser THEN Response("createExpense", user, 401, 0)
                       ELSE IF ~requireEmployee(user) THEN Response("createExpense", user, 403, 0)
                       ELSE IF parsed = "zod" THEN R(400) ELSE R(errorHandler(parsed))
            /\ earlyReturn(user)
       ELSE /\ mutations < MaxMutations
            /\ expenses' = LET created == (nextExpenseId :> newExpense(user, body)) @@ expenses
                           IN IF dbOk THEN created ELSE afterCatch(created, expenses)
            /\ nextExpenseId' = nextExpenseId + 1
            /\ AuditWrite(auditLogs, dbOk, "EXPENSE_CREATED",
                          Describe("Expense created", parseFloat(body.amount).v, body.category, ""), user.id)
            /\ last' = [R(statusAfterAudit(dbOk, 201)) EXCEPT !.target = nextExpenseId, !.dbOk = dbOk]
            /\ UNCHANGED <<users, nextUserId, tokens, loggedOut, inflight, client>>

\* -------------------------------------------------- PUT /api/expenses/:id
\* (mutant) the edit keeps the status
updateData_KeepStatus(expense, body) ==
    [expense EXCEPT !.amount = parseFloat(body.amount).v,
                    !.category = body.category,
                    !.date = body.date,
                    !.notes = body.notes,
                    !.receiptUrl = IF body.file THEN receiptUrlOf(body) ELSE @]

\* (mutant) the edit also takes the owner from the body
updateData_TakesUserId(expense, body) ==
    [expense EXCEPT !.amount = parseFloat(body.amount).v,
                    !.category = body.category,
                    !.date = body.date,
                    !.notes = body.notes,
                    !.status = "PENDING",
                    !.userId = IF body.userId # 0 THEN body.userId ELSE @,
                    !.receiptUrl = IF body.file THEN receiptUrlOf(body) ELSE @]

\* updateData: the content fields, the status reset, and the receipt only when a file came
updateData(expense, body) ==
    [expense EXCEPT !.amount = parseFloat(body.amount).v,
                    !.category = body.category,
                    !.date = body.date,
                    !.notes = body.notes,
                    !.status = "PENDING",
                    !.receiptUrl = IF body.file THEN receiptUrlOf(body) ELSE @]

UpdateExpense(tok, id, body, dbOk) ==
    LET user == authenticateToken(tok)
        R(code) == [Response("updateExpense", user, code, id) EXCEPT !.body = body] IN
    /\ Idle
    /\ IF user = NoUser \/ id \notin DOMAIN expenses
       THEN /\ last' = IF user = NoUser THEN Response("updateExpense", user, 401, 0) ELSE R(404)
            /\ earlyReturn(user)
       ELSE IF ownershipDenied(user, expenses[id]) \/ expenseSchemaParse(body) # "ok"
       THEN /\ last' = IF ownershipDenied(user, expenses[id]) THEN R(403) ELSE R(400)
            /\ earlyReturn(user)
       ELSE /\ expenses' = LET updated == [expenses EXCEPT ![id] = updateData(@, body)]
                           IN IF dbOk THEN updated ELSE afterCatch(updated, expenses)
            /\ AuditWrite(auditLogs, dbOk, "EXPENSE_UPDATED",
                          Describe("Expense updated", id, body.category, ""), user.id)
            /\ last' = [R(statusAfterAudit(dbOk, 200)) EXCEPT !.dbOk = dbOk]
            /\ UNCHANGED <<users, nextUserId, nextExpenseId, tokens, loggedOut, inflight, client>>

\* ------------------------------------------- PUT /api/expenses/:id/status
StatusInputs == {"APPROVED", "REJECTED", "PENDING"}
ReasonInputs == {"", "Missing receipt"}

\* the data of the status update: the status, and the reason whenever one was sent
statusData(expense, status, reason) ==
    [expense EXCEPT !.status = status,
                    !.rejectionReason = IF reason # "" THEN reason ELSE @]

\* (mutant) the status route without its role guard
statusRouteAllows_Anyone(user) == TRUE

\* the middleware chain of the status route
statusRouteAllows(user) == requireAdmin(user)

UpdateExpenseStatus(tok, id, status, reason, dbOk) ==
    LET user == authenticateToken(tok)
        R(code) == [Response("updateStatus", user, code, id) EXCEPT !.status = status] IN
    /\ Idle
    /\ IF user = NoUser \/ ~statusRouteAllows(user) \/ status \notin {"APPROVED", "REJECTED"}
          \/ id \notin DOMAIN expenses
       THEN /\ last' = IF user = NoUser THEN Response("updateStatus", user, 401, 0)
                       ELSE IF ~statusRouteAllows(user) THEN R(403)
                       ELSE IF status \notin {"APPROVED", "REJECTED"} THEN R(400) ELSE R(404)
            /\ earlyReturn(user)
       ELSE /\ expenses' = LET updated == [expenses EXCEPT ![id] = statusData(@, status, reason)]
                           IN IF dbOk THEN updated ELSE afterCatch(updated, expenses)
            /\ AuditWrite(auditLogs, dbOk, "EXPENSE_STATUS_UPDATED",
                          Describe("Expense status changed", id, status, reason), user.id)
            /\ last' = [R(statusAfterAudit(dbOk, 200)) EXCEPT !.dbOk = dbOk]
            /\ UNCHANGED <<users, nextUserId, nextExpenseId, tokens, loggedOut, inflight, client>>

\* ----------------------------------------------- GET /api/expenses/export
ExportQueries ==
    {NoFilter, [category |-> "", status |-> "APPROVED", startDate |-> 0, endDate |-> 0]}

\* the response is sent before the audit write, so a refused write leaves it as sent
ExportExpenses(tok, q, dbOk) ==
    LET user == authenticateToken(tok)
        ids == findManyIds(exportWhere(q)) IN
    /\ Idle
    /\ IF user = NoUser \/ ~requireAdmin(user)
       THEN /\ last' = Response("exportExpenses", user, IF user = NoUser THEN 401 ELSE 403, 0)
            /\ earlyReturn(user)
       ELSE /\ \E s \in orderByDesc(ids, dateOf) :
                last' = [Response("exportExpenses", user, 200, 0) EXCEPT
                            !.rows = rowsOf(s), !.count = Len(s), !.dbOk = dbOk]
            /\ AuditWrite(auditLogs, dbOk, "EXPENSE_EXPORT",
                          Describe("Exported expenses to CSV", Cardinality(ids), "", ""), user.id)
            /\ UNCHANGED <<users, expenses, nextUserId, nextExpenseId, tokens, loggedOut, inflight, client>>

\* ------------------------------------------------------- POST /api/users
\* JSON bodies of user creation ("" stands for an absent key)
UserBodies ==
    {[email |-> "new@example.com", password |-> "secret1", name |-> "New User", role |-> ""],
     [email |-> "new@example.com", password |-> "secret1", name |-> "New Admin", role |-> "ADMIN"],
     [email |-> "employee@example.com", password |-> "secret1", name |-> "Twin", role |-> "EMPLOYEE"],
     [email |-> "not-an-email", password |-> "secret1", name |-> "Bad", role |-> "EMPLOYEE"],
     [email |-> "short@example.com", password |-> "123", name |-> "Short", role |-> "EMPLOYEE"]}

\* userSchema.parse
userSchemaParse(body) ==
    /\ isEmail(body.email)
    /\ Len(body.password) >= MinPasswordLength
    /\ Len(body.name) >= 1
    /\ body.role \in Roles \cup {""}

\* prisma.user.findUnique({ where: { email } })
findUserByEmail(email) == {id \in DOMAIN users : users[id].email = email}

\* the row prisma.user.create inserts
newUser(body) ==
    [email |-> body.email, name |-> body.name, password |-> bcryptHash(body.password),
     role |-> IF body.role = "" THEN "EMPLOYEE" ELSE body.role]

CreateUser(tok, body, dbOk) ==
    LET user == authenticateToken(tok)
        R(code) == [Response("createUser", user, code, 0) EXCEPT !.userBody = body] IN
    /\ Idle
    /\ IF user = NoUser \/ ~requireAdmin(user) \/ ~userSchemaParse(body)
          \/ findUserByEmail(body.email) # {}
       THEN /\ last' = IF user = NoUser THEN R(401)
                       ELSE IF ~requireAdmin(user) THEN R(403)
                       ELSE IF ~userSchemaParse(body)
                       THEN [R(400) EXCEPT !.error = validationErrorResponse.error]
                       ELSE [R(400) EXCEPT !.error = "User already exists"]
            /\ earlyReturn(user)
       ELSE /\ mutations < MaxMutations
            /\ users' = LET created == (nextUserId :> newUser(body)) @@ users
                        IN IF dbOk THEN created ELSE afterCatch(created, users)
            /\ nextUserId' = nextUserId + 1
            /\ AuditWrite(auditLogs, dbOk, "USER_CREATED",
                          Describe("User created by admin", 0, body.email, ""), user.id)
            /\ last' = [R(statusAfterAudit(dbOk, 201)) EXCEPT !.target = nextUserId, !.dbOk = dbOk]
            /\ UNCHANGED <<expenses, nextExpenseId, tokens, loggedOut, inflight, client>>

\* ---------------------------------------------------- PUT /api/users/:id
UserUpdates ==
    {[email |-> "", password |-> "", name |-> "", role |-> "ADMIN"],
     [email |-> "", password |-> "", name |-> "", role |-> "EMPLOYEE"],
     [email |-> "new@example.com", password |-> "secret1", name |-> "Renamed", role |-> ""],
     [email |-> "admin@example.com", password |-> "", name |-> "", role |-> ""],
     [email |-> "", password |-> "123", name |-> "", role |-> ""]}

\* userUpdateSchema.parse: every key is optional
userUpdateSchemaParse(body) ==
    /\ body.email = "" \/ isEmail(body.email)
    /\ body.password = "" \/ Len(body.password) >= MinPasswordLength
    /\ body.role \in Roles \cup {""}

\* updateData of the user update: absent keys keep the stored value
userUpdateData(existing, body) ==
    [email |-> IF body.email # "" THEN body.email ELSE existing.email,
     name |-> IF body.name # "" THEN body.name ELSE existing.name,
     role |-> IF body.role # "" THEN body.role ELSE existing.role,
     password |-> IF body.password # "" THEN bcryptHash(body.password) ELSE existing.password]

\* the email check of the update: only when the email changes, and against every row
emailTaken(existing, body) ==
    body.email # "" /\ body.email # existing.email /\ findUserByEmail(body.email) # {}

UpdateUser(tok, id, body, dbOk) ==
    LET user == authenticateToken(tok)
        R(code) == [Response("updateUser", user, code, id) EXCEPT !.userBody = body] IN
    /\ Idle
    /\ IF user = NoUser \/ ~requireAdmin(user) \/ ~userUpdateSchemaParse(body)
       THEN /\ last' = IF user = NoUser THEN Response("updateUser", user, 401, 0)
                       ELSE IF ~requireAdmin(user) THEN Response("updateUser", user, 403, 0)
                       ELSE [R(400) EXCEPT !.error = validationErrorResponse.error]
            /\ earlyReturn(user)
       ELSE IF id \notin DOMAIN users
       THEN /\ last' = R(404)
            /\ earlyReturn(user)
       ELSE IF emailTaken(users[id], body)
       THEN /\ last' = [R(400) EXCEPT !.error = "Email already exists"]
            /\ earlyReturn(user)
       ELSE /\ users' = LET updated == [users EXCEPT ![id] = userUpdateData(@, body)]
                        IN IF dbOk THEN updated ELSE afterCatch(updated, users)
            /\ AuditWrite(auditLogs, dbOk, "USER_UPDATED",
                          Describe("User updated by admin", id, userUpdateData(users[id], body).email, ""),
                          user.id)
            /\ last' = [R(statusAfterAudit(dbOk, 200)) EXCEPT !.dbOk = dbOk]
            /\ UNCHANGED <<expenses, nextUserId, nextExpenseId, tokens, loggedOut, inflight, client>>

\* ------------------------------------------------- DELETE /api/users/:id
\* (mutant) no self-delete guard
isSelf_Never(target, user) == FALSE

\* the self-delete guard
isSelf(target, user) == target = user.id

\* prisma.user.delete with the ON DELETE CASCADE of expenses.user_id and audit_logs.user_id
Restrict(f, S) == [x \in S |-> f[x]]
usersAfterDelete(id) == Restrict(users, DOMAIN users \ {id})
\* (mutant) the user row goes, its expenses stay
expensesAfterDelete_NoCascade(id) == expenses
expensesAfterDelete(id) == Restrict(expenses, {e \in DOMAIN expenses : expenses[e].userId # id})
auditLogsAfterDelete(id) == {a \in auditLogs : a.userId # id}

DeleteUser(tok, id, dbOk) ==
    LET user == authenticateToken(tok)
        R(code) == Response("deleteUser", user, code, id) IN
    /\ Idle
    /\ IF user = NoUser \/ ~requireAdmin(user)
       THEN /\ last' = Response("deleteUser", user, IF user = NoUser THEN 401 ELSE 403, 0)
            /\ earlyReturn(user)
       ELSE IF id \notin DOMAIN users \/ isSelf(id, user)
       THEN /\ last' = IF id \notin DOMAIN users THEN R(404) ELSE R(400)
            /\ earlyReturn(user)
       ELSE LET written == dbOk /\ user.id \in DOMAIN usersAfterDelete(id) IN
            \* audit_logs.user_id is a foreign key: the write needs the actor's row
            /\ users' = IF written THEN usersAfterDelete(id)
                        ELSE afterCatch(usersAfterDelete(id), users)
            /\ expenses' = IF written THEN expensesAfterDelete(id)
                           ELSE afterCatch(expensesAfterDelete(id), expenses)
            /\ AuditWrite(IF written THEN auditLogsAfterDelete(id)
                          ELSE afterCatch(auditLogsAfterDelete(id), auditLogs),
                          written, "USER_DELETED",
                          Describe("User deleted by admin", id, users[id].email, ""), user.id)
            /\ last' = [R(statusAfterAudit(written, 200)) EXCEPT !.dbOk = written]
            /\ UNCHANGED <<nextUserId, nextExpenseId, tokens, loggedOut, inflight, client>>

\* ------------------------------------------- interleaved user requests
\* POST /api/users and PUT /api/users/:id taken in two steps, split between the awaits of the
\* existence checks and the await of the write, so that requests overlap there.

\* (mutant) the users table without its unique index on email
uniqueViolation_NoIndex(id, email) == FALSE

\* users.email is UNIQUE: a write that would give row id an email another row holds is refused
uniqueViolation(id, email) == \E j \in DOMAIN users : j # id /\ users[j].email = email

freeSlot == CHOOSE n \in 1..MaxInflight : \A r \in inflight : r.slot # n

CreateUserCheck(tok, body) ==
    LET user == authenticateToken(tok)
        R(code) == [Response("createUser", user, code, 0) EXCEPT !.userBody = body] IN
    /\ Idle
    /\ mutations + Cardinality(inflight) < MaxInflight
    /\ UNCHANGED <<users, expenses, auditLogs, nextUserId, nextExpenseId, auditSeq, tokens,
                   mutations, loggedOut, client>>
    /\ IF user = NoUser \/ ~requireAdmin(user) \/ ~userSchemaParse(body)
          \/ findUserByEmail(body.email) # {}
       THEN /\ last' = IF user = NoUser THEN R(401)
                       ELSE IF ~requireAdmin(user) THEN R(403)
                       ELSE IF ~userSchemaParse(body)
                       THEN [R(400) EXCEPT !.error = validationErrorResponse.error]
                       ELSE [R(400) EXCEPT !.error = "User already exists"]
            /\ inflight' = inflight
       ELSE /\ inflight' = inflight \cup {[slot |-> freeSlot, op |-> "createUser", caller |-> user,
                                           id |-> 0, body |-> body, existing |-> NoUserBody]}
            /\ last' = last

CreateUserWrite(r, dbOk) ==
    LET R(code) == [Response("createUser", r.caller, code, 0) EXCEPT !.userBody = r.body]
        written == dbOk /\ r.caller.id \in DOMAIN users IN
    /\ Idle
    /\ r.op = "createUser"
    /\ inflight' = inflight \ {r}
    /\ IF uniqueViolation(nextUserId, r.body.email)
       THEN /\ last' = [R(500) EXCEPT !.error = "Failed to create user"]
            /\ UNCHANGED <<users, expenses, auditLogs, nextUserId, nextExpenseId, auditSeq, tokens,
                           mutations, loggedOut, client>>
       ELSE /\ users' = LET created == (nextUserId :> newUser(r.body)) @@ users
                        IN IF written THEN created ELSE afterCatch(created, users)
            /\ nextUserId' = nextUserId + 1
            /\ AuditWriteUpTo(MaxInflight, auditLogs, written, "USER_CREATED",
                              Describe("User created by admin", 0, r.body.email, ""), r.caller.id)
            /\ last' = [R(statusAfterAudit(written, 201)) EXCEPT !.target = nextUserId, !.dbOk = written]
            /\ UNCHANGED <<expenses, nextExpenseId, tokens, loggedOut, client>>

UpdateUserCheck(tok, id, body) ==
    LET user == authenticateToken(tok)
        R(code) == [Response("updateUser", user, code, id) EXCEPT !.userBody = body] IN
    /\ Idle
    /\ mutations + Cardinality(inflight) < MaxInflight
    /\ UNCHANGED <<users, expenses, auditLogs, nextUserId, nextExpenseId, auditSeq, tokens,
                   mutations, loggedOut, client>>
    /\ IF user = NoUser \/ ~requireAdmin(user) \/ ~userUpdateSchemaParse(body)
       THEN /\ last' = IF user = NoUser THEN Response("updateUser", user, 401, 0)
                       ELSE IF ~requireAdmin(user) THEN Response("updateUser", user, 403, 0)
                       ELSE [R(400) EXCEPT !.error = validationErrorResponse.error]
            /\ inflight' = inflight
       ELSE IF id \notin DOMAIN users
       THEN /\ last' = R(404)
            /\ inflight' = inflight
       ELSE IF emailTaken(users[id], body)
       THEN /\ last' = [R(400) EXCEPT !.error = "Email already exists"]
            /\ inflight' = inflight
       ELSE /\ inflight' = inflight \cup {[slot |-> freeSlot, op |-> "updateUser", caller |-> user,
                                           id |-> id, body |-> body, existing |-> users[id]]}
            /\ last' = last

UpdateUserWrite(r, dbOk) ==
    LET R(code) == [Response("updateUser", r.caller, code, r.id) EXCEPT !.userBody = r.body]
        data == userUpdateData(r.existing, r.body)
        written == dbOk /\ r.caller.id \in DOMAIN users IN
    /\ Idle
    /\ r.op = "updateUser"
    /\ inflight' = inflight \ {r}
    /\ IF r.id \notin DOMAIN users \/ uniqueViolation(r.id, data.email)
       THEN /\ last' = [R(500) EXCEPT !.error = "Failed to update user"]
            /\ UNCHANGED <<users, expenses, auditLogs, nextUserId, nextExpenseId, auditSeq, tokens,
                           mutations, loggedOut, client>>
       ELSE /\ users' = LET updated == [users EXCEPT ![r.id] = data]
                        IN IF written THEN updated ELSE afterCatch(updated, users)
            /\ AuditWriteUpTo(MaxInflight, auditLogs, written, "USER_UPDATED",
                              Describe("User updated by admin", r.id, data.email, ""), r.caller.id)
            /\ last' = [R(statusAfterAudit(written, 200)) EXCEPT !.dbOk = written]
            /\ UNCHANGED <<expenses, nextUserId, nextExpenseId, tokens, loggedOut, client>>

\* ----------------------------------------- interleaved expense requests
\* PUT /api/expenses/:id and PUT /api/expenses/:id/status taken await by await: the lookup with
\* the checks around it, the update, and the audit write with the response.
EditRequest(slot, op, user, id, body, status, reason) ==
    [slot |-> slot, op |-> op, stage |-> "checked", caller |-> user, id |-> id, body |-> body,
     status |-> status, reason |-> reason, existing |-> expenses[id]]

\* (mutant) the update also asks for the row to be as the handler read it
updateMatches_Versioned(r) == r.id \in DOMAIN expenses /\ expenses[r.id] = r.existing

\* where: { id } of prisma.expense.update: the row is matched by its id alone
updateMatches(r) == r.id \in DOMAIN expenses

UpdateExpenseCheck(tok, id, body) ==
    LET user == authenticateToken(tok)
        R(code) == [Response("updateExpense", user, code, id) EXCEPT !.body = body] IN
    /\ Idle
    /\ mutations + Cardinality(inflight) < MaxInflight
    /\ UNCHANGED <<users, expenses, auditLogs, nextUserId, nextExpenseId, auditSeq, tokens,
                   mutations, loggedOut, client>>
    /\ IF user = NoUser \/ id \notin DOMAIN expenses
       THEN /\ last' = IF user = NoUser THEN Response("updateExpense", user, 401, 0) ELSE R(404)
            /\ inflight' = inflight
       ELSE IF ownershipDenied(user, expenses[id]) \/ expenseSchemaParse(body) # "ok"
       THEN /\ last' = IF ownershipDenied(user, expenses[id]) THEN R(403) ELSE R(400)
            /\ inflight' = inflight
       ELSE /\ inflight' = inflight \cup {EditRequest(freeSlot, "updateExpense", user, id, body, "", "")}
            /\ last' = last

\* prisma.expense.update of the edit: it throws when the row is gone
UpdateExpenseWrite(r) ==
    /\ Idle
    /\ r.op = "updateExpense" /\ r.stage = "checked"
    /\ UNCHANGED <<users, auditLogs, nextUserId, nextExpenseId, auditSeq, tokens, mutations, loggedOut, client>>
    /\ IF ~updateMatches(r)
       THEN /\ last' = [Response("updateExpense", r.caller, 500, r.id) EXCEPT !.body = r.body]
            /\ inflight' = inflight \ {r}
            /\ expenses' = expenses
       ELSE /\ expenses' = [expenses EXCEPT ![r.id] = updateData(@, r.body)]
            /\ inflight' = (inflight \ {r}) \cup {[r EXCEPT !.stage = "written"]}
            /\ last' = last

UpdateExpenseAudit(r, dbOk) ==
    LET written == dbOk /\ r.caller.id \in DOMAIN users IN
    /\ Idle
    /\ r.op = "updateExpense" /\ r.stage = "written"
    /\ AuditWriteUpTo(MaxInflight, auditLogs, written, "EXPENSE_UPDATED",
                      Describe("Expense updated", r.id, r.body.category, ""), r.caller.id)
    /\ last' = [Response("updateExpense", r.caller, statusAfterAudit(written, 200), r.id) EXCEPT
                   !.body = r.body, !.dbOk = written]
    /\ inflight' = inflight \ {r}
    /\ UNCHANGED <<users, expenses, nextUserId, nextExpenseId, tokens, loggedOut, client>>

UpdateExpenseStatusCheck(tok, id, status, reason) ==
    LET user == authenticateToken(tok)
        R(code) == [Response("updateStatus", user, code, id) EXCEPT !.status = status] IN
    /\ Idle
    /\ mutations + Cardinality(inflight) < MaxInflight
    /\ UNCHANGED <<users, expenses, auditLogs, nextUserId, nextExpenseId, auditSeq, tokens,
                   mutations, loggedOut, client>>
    /\ IF user = NoUser \/ ~statusRouteAllows(user) \/ status \notin {"APPROVED", "REJECTED"}
          \/ id \notin DOMAIN expenses
       THEN /\ last' = IF user = NoUser THEN Response("updateStatus", user, 401, 0)
                       ELSE IF ~statusRouteAllows(user) THEN R(403)
                       ELSE IF status \notin {"APPROVED", "REJECTED"} THEN R(400) ELSE R(404)
            /\ inflight' = inflight
       ELSE /\ inflight' = inflight \cup {EditRequest(freeSlot, "updateStatus", user, id, NoBody, status, reason)}
            /\ last' = last

\* prisma.expense.update of the status route: the status and the reason, whatever the row holds now
UpdateExpenseStatusWrite(r) ==
    /\ Idle
    /\ r.op = "updateStatus" /\ r.stage = "checked"
    /\ UNCHANGED <<users, auditLogs, nextUserId, nextExpenseId, auditSeq, tokens, mutations, loggedOut, client>>
    /\ IF ~updateMatches(r)
       THEN /\ last' = [Response("updateStatus", r.caller, 500, r.id) EXCEPT !.status = r.status]
            /\ inflight' = inflight \ {r}
            /\ expenses' = expenses
       ELSE /\ expenses' = [expenses EXCEPT ![r.id] = statusData(@, r.status, r.reason)]
            /\ inflight' = (inflight \ {r}) \cup {[r EXCEPT !.stage = "written"]}
            /\ last' = last

UpdateExpenseStatusAudit(r, dbOk) ==
    LET written == dbOk /\ r.caller.id \in DOMAIN users IN
    /\ Idle
    /\ r.op = "updateStatus" /\ r.stage = "written"
    /\ AuditWriteUpTo(MaxInflight, auditLogs, written, "EXPENSE_STATUS_UPDATED",
                      Describe("Expense status changed", r.id, r.status, r.reason), r.caller.id)
    /\ last' = [Response("updateStatus", r.caller, statusAfterAudit(written, 200), r.id) EXCEPT
                   !.status = r.status, !.dbOk = written]
    /\ inflight' = inflight \ {r}
    /\ UNCHANGED <<users, expenses, nextUserId, nextExpenseId, tokens, loggedOut, client>>

\* ---------------------------------------------------------- GET /api/logs
NoAuditFilter == [action |-> "", userId |-> 0]
AuditQueries == {NoAuditFilter, [action |-> "USER_LOGIN", userId |-> 0], [action |-> "", userId |-> 2]}

\* the where clause of the audit queries
auditMatches(a, q) ==
    /\ q.action = "" \/ a.action = q.action
    /\ q.userId = 0 \/ a.userId = q.userId

findManyLogs(q) == {a \in auditLogs : auditMatches(a, q)}

GetAuditLogs(tok, q) ==
    LET user == authenticateToken(tok) IN
    /\ Idle
    /\ UNCHANGED <<users, expenses, auditLogs, nextUserId, nextExpenseId, auditSeq, tokens,
                         mutations, loggedOut, inflight, client>>
    /\ IF user = NoUser THEN last' = Response("getAuditLogs", user, 401, 0)
       ELSE IF ~requireAdmin(user) THEN last' = Response("getAuditLogs", user, 403, 0)
       ELSE last' = [Response("getAuditLogs", user, 200, 0) EXCEPT !.count = Cardinality(findManyLogs(q))]

\* --------------------------------------------------- GET /api/logs/export
\* as in the expense export, the response is sent before the audit write
ExportAuditLogs(tok, q, dbOk) ==
    LET user == authenticateToken(tok)
        logs == findManyLogs(q) IN
    /\ Idle
    /\ IF user = NoUser \/ ~requireAdmin(user)
       THEN /\ last' = Response("exportAuditLogs", user, IF user = NoUser THEN 401 ELSE 403, 0)
            /\ earlyReturn(user)
       ELSE /\ last' = [Response("exportAuditLogs", user, 200, 0) EXCEPT !.count = Cardinality(logs), !.dbOk = dbOk]
            /\ AuditWrite(auditLogs, dbOk, "AUDIT_EXPORT",
                          Describe("Exported audit logs to CSV", Cardinality(logs), "", ""), user.id)
            /\ UNCHANGED <<users, expenses, nextUserId, nextExpenseId, tokens, loggedOut, inflight, client>>

\* ------------------------------------------------------------- analytics
\* parseInt on the numbers the query strings carry
parseInt(s) ==
    CASE s = "0" -> 0
      [] s = "1" -> 1
      [] s = "5" -> 5
      [] s = "6" -> 6
      [] s = "30" -> 30

\* moment(date).format('YYYY-MM') on the day scale: days 1..30 are the month of today
monthOf(d) == (d + 29) \div 30

\* (mutant) the role filter is left out of the where clause
analyticsWhere_NoRoleFilter(user, startDate, endDate) ==
    [userId |-> 0, category |-> "", status |-> "", startDate |-> startDate, endDate |-> endDate]

\* the where clause of the summary: the date range, and the caller's id for an EMPLOYEE
analyticsWhere(user, startDate, endDate) ==
    [userId |-> IF user.role = "EMPLOYEE" THEN user.id ELSE 0,
     category |-> "", status |-> "", startDate |-> startDate, endDate |-> endDate]

\* the where clause of the admin routes: the date range when the query has one
adminWhere(startDate, endDate) ==
    [userId |-> 0, category |-> "", status |-> "", startDate |-> startDate, endDate |-> endDate]

\* _sum: { amount: true }
RECURSIVE sumAmount(_)
sumAmount(ids) ==
    IF ids = {} THEN 0
    ELSE LET id == CHOOSE i \in ids : TRUE IN expenses[id].amount + sumAmount(ids \ {id})

\* _avg: { amount: true }, 0 when no row matches (to the last digit of the amount scale)
avgAmount(ids) == IF ids = {} THEN 0 ELSE sumAmount(ids) \div Cardinality(ids)

\* the summary object
summaryOf(where) ==
    LET all == findManyIds(where)
        approved == findManyIds([where EXCEPT !.status = "APPROVED"]) IN
    [totalExpenses |-> Cardinality(all),
     pendingExpenses |-> Cardinality(findManyIds([where EXCEPT !.status = "PENDING"])),
     approvedExpenses |-> Cardinality(approved),
     rejectedExpenses |-> Cardinality(findManyIds([where EXCEPT !.status = "REJECTED"])),
     totalAmount |-> sumAmount(all),
     averageAmount |-> avgAmount(all),
     approvalRate |-> IF Cardinality(all) > 0 THEN <<Cardinality(approved), Cardinality(all)>>
                      ELSE <<0, 1>>]

\* groupBy({ by: ['category'] }) with _sum.amount and _count.id
groupByCategory(ids) ==
    {[category |-> c,
      totalAmount |-> sumAmount({i \in ids : expenses[i].category = c}),
      count |-> Cardinality({i \in ids : expenses[i].category = c})] :
        c \in {expenses[i].category : i \in ids}}

\* the months from startDate to endDate, each with the total, the count and the
\* per-category totals of the rows that fall in it
monthlyOf(ids, startDate, endDate) ==
    [m \in monthOf(startDate)..monthOf(endDate) |->
        LET rows == {i \in ids : monthOf(expenses[i].date) = m} IN
        [total |-> sumAmount(rows), count |-> Cardinality(rows),
         categories |-> {[category |-> g.category, total |-> g.totalAmount] : g \in groupByCategory(rows)}]]

\* groupBy({ by: ['userId'] }): the users among the rows and the total of each
spenders(ids) == {expenses[i].userId : i \in ids}
spent(ids) == [u \in spenders(ids) |-> sumAmount({i \in ids : expenses[i].userId = u})]

\* the user details and figures of each top spender
spendersWithDetails(s, ids) ==
    [n \in 1..Len(s) |->
        [user |-> [id |-> s[n], name |-> users[s[n]].name, email |-> users[s[n]].email],
         totalAmount |-> spent(ids)[s[n]],
         expenseCount |-> Cardinality({i \in ids : expenses[i].userId = s[n]})]]

\* --------------------------------------------- GET /api/analytics/summary
DaysInputs == {"", "0", "1"}

GetAnalyticsSummary(tok, days) ==
    LET user == authenticateToken(tok)
        endDate == Today
        startDate == Today - (IF days = "" THEN DefaultDays ELSE parseInt(days))
        where == analyticsWhere(user, startDate, endDate)
        ids == findManyIds(where) IN
    /\ Idle
    /\ UNCHANGED <<users, expenses, auditLogs, nextUserId, nextExpenseId, auditSeq, tokens,
                   mutations, loggedOut, inflight, client>>
    /\ IF user = NoUser THEN last' = Response("analyticsSummary", NoUser, 401, 0)
       ELSE \E s \in orderByDesc(spenders(ids), spent(ids)) :
                last' = [Response("analyticsSummary", user, 200, 0) EXCEPT
                            !.query = [NoQuery EXCEPT !.startDate = startDate, !.endDate = endDate],
                            !.analytics =
                                [kind |-> "summary",
                                 summary |-> summaryOf(where),
                                 categoryBreakdown |-> groupByCategory(ids),
                                 monthlyTrends |-> monthlyOf(ids, startDate, endDate),
                                 topSpenders |-> spendersWithDetails(paginate(s, 0, SummarySpenders), ids)]]

\* --------------------------- GET /api/analytics/summary, query by query
\* The summary taken query by query: the six queries of Promise.all, in the order in which the
\* array issues them, then the category groupBy, the findMany of the trends and the groupBy of the top
\* spenders; other requests commit in between.
SummaryQueries == <<"totalExpenses", "pendingExpenses", "approvedExpenses", "rejectedExpenses",
                    "totalAmount", "averageAmount">>

\* one query of Promise.all against the table as it is now
summaryQuery(q, where) ==
    CASE q = "totalExpenses" -> Cardinality(findManyIds(where))
      [] q = "pendingExpenses" -> Cardinality(findManyIds([where EXCEPT !.status = "PENDING"]))
      [] q = "approvedExpenses" -> Cardinality(findManyIds([where EXCEPT !.status = "APPROVED"]))
      [] q = "rejectedExpenses" -> Cardinality(findManyIds([where EXCEPT !.status = "REJECTED"]))
      [] q = "totalAmount" -> sumAmount(findManyIds(where))
      [] q = "averageAmount" -> avgAmount(findManyIds(where))

\* the summary object built from the results of the six queries
summaryFrom(results) ==
    [totalExpenses |-> results["totalExpenses"],
     pendingExpenses |-> results["pendingExpenses"],
     approvedExpenses |-> results["approvedExpenses"],
     rejectedExpenses |-> results["rejectedExpenses"],
     totalAmount |-> results["totalAmount"],
     averageAmount |-> results["averageAmount"],
     approvalRate |-> IF results["totalExpenses"] > 0
                      THEN <<results["approvedExpenses"], results["totalExpenses"]>>
                      ELSE <<0, 1>>]

AnalyticsSummaryStart(tok, days) ==
    LET user == authenticateToken(tok)
        endDate == Today
        startDate == Today - (IF days = "" THEN DefaultDays ELSE parseInt(days)) IN
    /\ Idle
    /\ inflight = {}   \* summaries only read: one is followed at a time
    /\ UNCHANGED <<users, expenses, auditLogs, nextUserId, nextExpenseId, auditSeq, tokens,
                   mutations, loggedOut, client>>
    /\ IF user = NoUser
       THEN /\ last' = Response("analyticsSummary", NoUser, 401, 0)
            /\ inflight' = inflight
       ELSE /\ inflight' = inflight \cup
                   {[slot |-> freeSlot, op |-> "analyticsSummary", stage |-> "counts",
                     caller |-> user, where |-> analyticsWhere(user, startDate, endDate),
                     results |-> [q \in {} |-> 0], categoryBreakdown |-> {},
                     monthlyTrends |-> <<>>]}
            /\ last' = last

AnalyticsSummaryCount(r) ==
    LET q == SummaryQueries[Cardinality(DOMAIN r.results) + 1]
        results == (q :> summaryQuery(q, r.where)) @@ r.results IN
    /\ Idle
    /\ r.op = "analyticsSummary" /\ r.stage = "counts"
    /\ inflight' = (inflight \ {r}) \cup
          {[r EXCEPT !.results = results,
                     !.stage = IF Cardinality(DOMAIN results) = Len(SummaryQueries) THEN "categories" ELSE @]}
    /\ UNCHANGED <<users, expenses, auditLogs, nextUserId, nextExpenseId, auditSeq, tokens,
                   mutations, last, loggedOut, client>>

AnalyticsSummaryCategories(r) ==
    /\ Idle
    /\ r.op = "analyticsSummary" /\ r.stage = "categories"
    /\ inflight' = (inflight \ {r}) \cup
          {[r EXCEPT !.categoryBreakdown = groupByCategory(findManyIds(r.where)),
                     !.stage = "trends"]}
    /\ UNCHANGED <<users, expenses, auditLogs, nextUserId, nextExpenseId, auditSeq, tokens,
                   mutations, last, loggedOut, client>>

AnalyticsSummaryTrends(r) ==
    /\ Idle
    /\ r.op = "analyticsSummary" /\ r.stage = "trends"
    /\ inflight' = (inflight \ {r}) \cup
          {[r EXCEPT !.monthlyTrends = monthlyOf(findManyIds(r.where), r.where.startDate, r.where.endDate),
                     !.stage = "spenders"]}
    /\ UNCHANGED <<users, expenses, auditLogs, nextUserId, nextExpenseId, auditSeq, tokens,
                   mutations, last, loggedOut, client>>

AnalyticsSummarySpenders(r) ==
    LET ids == findManyIds(r.where) IN
    /\ Idle
    /\ r.op = "analyticsSummary" /\ r.stage = "spenders"
    /\ inflight' = inflight \ {r}
    /\ \E s \in orderByDesc(spenders(ids), spent(ids)) :
          last' = [Response("analyticsSummary", r.caller, 200, 0) EXCEPT
                      !.query = [NoQuery EXCEPT !.startDate = r.where.startDate,
                                                !.endDate = r.where.endDate],
                      !.analytics =
                          [kind |-> "summary",
                           summary |-> summaryFrom(r.results),
                           categoryBreakdown |-> r.categoryBreakdown,
                           monthlyTrends |-> r.monthlyTrends,
                           topSpenders |-> spendersWithDetails(paginate(s, 0, SummarySpenders), ids)]]
    /\ UNCHANGED <<users, expenses, auditLogs, nextUserId, nextExpenseId, auditSeq, tokens,
                   mutations, loggedOut, client>>

\* ------------------------------------------ GET /api/analytics/categories
\* startDate and endDate of the query (0 stands for an absent key)
RangeInputs == {[startDate |-> 0, endDate |-> 0], [startDate |-> 2, endDate |-> 0],
                [startDate |-> 0, endDate |-> 1]}

RECURSIVE sumTotals(_)
sumTotals(groups) ==
    IF groups = {} THEN 0
    ELSE LET g == CHOOSE x \in groups : TRUE IN g.totalAmount + sumTotals(groups \ {g})

GetAnalyticsCategories(tok, q) ==
    LET user == authenticateToken(tok)
        ids == findManyIds(adminWhere(q.startDate, q.endDate)) IN
    /\ Idle
    /\ UNCHANGED <<users, expenses, auditLogs, nextUserId, nextExpenseId, auditSeq, tokens,
                   mutations, loggedOut, inflight, client>>
    /\ IF user = NoUser THEN last' = Response("analyticsCategories", NoUser, 401, 0)
       ELSE IF ~requireAdmin(user) THEN last' = Response("analyticsCategories", user, 403, 0)
       ELSE last' = [Response("analyticsCategories", user, 200, 0) EXCEPT
                        !.analytics = [kind |-> "categories",
                                       data |-> groupByCategory(ids),
                                       total |-> sumTotals(groupByCategory(ids))]]

\* ---------------------------------------------- GET /api/analytics/trends
MonthsInputs == {"", "1"}

GetAnalyticsTrends(tok, months) ==
    LET user == authenticateToken(tok)
        endDate == Today
        startDate == Today - 30 * (IF months = "" THEN DefaultMonths ELSE parseInt(months))
        ids == findManyIds(adminWhere(startDate, endDate))
        data == monthlyOf(ids, startDate, endDate) IN
    /\ Idle
    /\ UNCHANGED <<users, expenses, auditLogs, nextUserId, nextExpenseId, auditSeq, tokens,
                   mutations, loggedOut, inflight, client>>
    /\ IF user = NoUser THEN last' = Response("analyticsTrends", NoUser, 401, 0)
       ELSE IF ~requireAdmin(user) THEN last' = Response("analyticsTrends", user, 403, 0)
       ELSE last' = [Response("analyticsTrends", user, 200, 0) EXCEPT
                        !.analytics = [kind |-> "trends",
                                       data |-> data,
                                       totalAmount |-> sumAmount(ids),
                                       totalCount |-> Cardinality(ids)]]

\* ---------------------------------------- GET /api/analytics/top-spenders
LimitInputs == {"", "1"}

GetAnalyticsTopSpenders(tok, limit, q) ==
    LET user == authenticateToken(tok)
        ids == findManyIds(adminWhere(q.startDate, q.endDate))
        take == IF limit = "" THEN DefaultSpenders ELSE parseInt(limit) IN
    /\ Idle
    /\ UNCHANGED <<users, expenses, auditLogs, nextUserId, nextExpenseId, auditSeq, tokens,
                   mutations, loggedOut, inflight, client>>
    /\ IF user = NoUser THEN last' = Response("analyticsTopSpenders", NoUser, 401, 0)
       ELSE IF ~requireAdmin(user) THEN last' = Response("analyticsTopSpenders", user, 403, 0)
       ELSE \E s \in orderByDesc(spenders(ids), spent(ids)) :
                last' = [Response("analyticsTopSpenders", user, 200, 0) EXCEPT
                            !.analytics = [kind |-> "topSpenders",
                                           topSpenders |-> spendersWithDetails(paginate(s, 0, take), ids)]]

\* ------------------------------------------------ AuthContext (frontend)
\* The provider's state (user, loading), localStorage's token and the calls of checkAuth,
\* login and logout that are waiting for authService. authService is taken as a server call
\* that resolves or rejects; it resolves with the user of the token or credentials it sent.
ClientEmails == {"admin@example.com", "employee@example.com"}

tokenFor(email) == "token of " \o email
userOfToken(t) == CHOOSE e \in ClientEmails : tokenFor(e) = t

ServerUnchanged ==
    UNCHANGED <<users, expenses, auditLogs, nextUserId, nextExpenseId, auditSeq, tokens,
                mutations, last, loggedOut, inflight>>

call(op, email) ==
    [op |-> op, n |-> client.started + 1, email |-> email, token |-> client.token]

\* checkAuth up to its await: with no token stored it goes straight to finally
checkAuth ==
    /\ client.started < MaxCalls
    /\ client' = IF client.token # NoClientToken
                 THEN [client EXCEPT !.started = @ + 1, !.calls = @ \cup {call("checkAuth", "")}]
                 ELSE [client EXCEPT !.started = @ + 1, !.loading = FALSE]
    /\ ServerUnchanged

\* checkAuth after its await: setUser(userData), or removeItem('token') in catch; then finally
checkAuthSettled(c, resolved) ==
    IF resolved
    THEN [client EXCEPT !.user = userOfToken(c.token), !.loading = FALSE, !.calls = @ \ {c}]
    ELSE [client EXCEPT !.token = NoClientToken, !.loading = FALSE, !.calls = @ \ {c}]

checkAuthResumes(c, resolved) ==
    /\ c.op = "checkAuth"
    /\ client' = checkAuthSettled(c, resolved)
    /\ ServerUnchanged

login(email) ==
    /\ client.started < MaxCalls
    /\ client' = [client EXCEPT !.started = @ + 1, !.calls = @ \cup {call("login", email)}]
    /\ ServerUnchanged

\* login after its await: setItem('token') and setUser, or the error is thrown on
loginResumes(c, resolved) ==
    /\ c.op = "login"
    /\ client' = IF resolved
                 THEN [client EXCEPT !.token = tokenFor(c.email), !.user = c.email, !.calls = @ \ {c}]
                 ELSE [client EXCEPT !.calls = @ \ {c}]
    /\ ServerUnchanged

logout ==
    /\ client.started < MaxCalls
    /\ client' = [client EXCEPT !.started = @ + 1, !.calls = @ \cup {call("logout", "")}]
    /\ ServerUnchanged

\* logout after its await: finally removes the token and clears the user either way
logoutResumes(c, resolved) ==
    /\ c.op = "logout"
    /\ client' = [client EXCEPT !.token = NoClientToken, !.user = NoClientUser, !.calls = @ \ {c}]
    /\ ServerUnchanged

\* ====================================================================== claims
StateChangingOps ==
    {"login", "logout", "createExpense", "updateExpense", "updateStatus", "exportExpenses",
     "createUser", "updateUser", "deleteUser", "exportAuditLogs"}

\* C1: the rows GET /api/expenses returns to an EMPLOYEE all carry the caller's id as userId,
\* whatever filters, page and limit the query has and whatever the expense table holds.
C1_EmployeeListsOnlyOwnExpenses ==
    (last.op = "getExpenses" /\ last.role = "EMPLOYEE" /\ last.code = 200)
        => \A i \in 1..Len(last.rows) : last.rows[i].userId = last.caller

\* an employee got a non-empty list while somebody else's expense was in the table
C1_Witness ==
    /\ last.op = "getExpenses" /\ last.role = "EMPLOYEE" /\ last.code = 200
    /\ Len(last.rows) > 0
    /\ \E e \in DOMAIN expenses : expenses[e].userId # last.caller

\* C2: after every successful PUT /api/expenses/:id the edited expense is PENDING.
C2_EditResetsStatusToPending ==
    (last.op = "updateExpense" /\ last.code = 200)
        => /\ last.target \in DOMAIN expenses
           /\ expenses[last.target].status = "PENDING"

\* a decided expense was edited: the reason of its rejection is still stored, its status is PENDING
C2_Witness ==
    /\ last.op = "updateExpense" /\ last.code = 200
    /\ expenses[last.target].rejectionReason # ""

\* C3: a status changes to APPROVED or REJECTED only from PENDING, and leaves APPROVED or
\* REJECTED only to PENDING through a content edit.
C3_StatusWorkflow ==
    [][\A e \in DOMAIN expenses \cap DOMAIN expenses' :
          expenses'[e].status # expenses[e].status
              => \/ /\ expenses[e].status = "PENDING"
                    /\ expenses'[e].status \in {"APPROVED", "REJECTED"}
                 \/ /\ expenses'[e].status = "PENDING"
                    /\ last'.op = "updateExpense"]_vars

\* C4: PUT /api/expenses/:id/status by an EMPLOYEE is answered 403 and changes no expense, and
\* every request that writes APPROVED or REJECTED into a status is a status change by an ADMIN.
C4_StatusChangeIsAdminOnly ==
    [][/\ (last'.op = "updateStatus" /\ last'.role = "EMPLOYEE")
              => (last'.code = 403 /\ expenses' = expenses)
       /\ \A e \in DOMAIN expenses' :
              (/\ expenses'[e].status \in {"APPROVED", "REJECTED"}
               /\ (e \notin DOMAIN expenses \/ expenses[e].status # expenses'[e].status))
                  => (last'.op = "updateStatus" /\ last'.role = "ADMIN")]_vars

\* an employee has called the status route and was refused
C4_Witness == last.op = "updateStatus" /\ last.role = "EMPLOYEE" /\ last.code = 403

\* C5: on an existing expense, GET and PUT /api/expenses/:id by an EMPLOYEE who is not the owner
\* are answered 403 and change nothing; by the owner or by an ADMIN they are never answered 403,
\* the GET is answered 200, and so is the PUT when its body is valid and its audit write succeeds.
C5_OwnershipGuard ==
    [][(/\ last'.op \in {"getExpense", "updateExpense"}
        /\ last'.caller # 0
        /\ last'.target \in DOMAIN expenses)
          => IF last'.role = "EMPLOYEE" /\ expenses[last'.target].userId # last'.caller
             THEN /\ last'.code = 403
                  /\ expenses' = expenses
                  /\ auditLogs' = auditLogs
             ELSE /\ last'.code # 403
                  /\ last'.op = "getExpense" => last'.code = 200
                  /\ (/\ last'.op = "updateExpense"
                      /\ expenseSchemaParse(last'.body) = "ok"
                      /\ last'.dbOk) => last'.code = 200]_vars

\* an employee has tried to edit an expense of another user and was refused
C5_Witness ==
    /\ last.op = "updateExpense" /\ last.role = "EMPLOYEE" /\ last.code = 403
    /\ last.target \in DOMAIN expenses
    /\ expenses[last.target].userId # last.caller

\* C6: every successful state-changing call adds exactly one audit entry, with the caller as actor.
C6_ExactlyOneAuditEntryPerCall ==
    [][(last'.op \in StateChangingOps /\ last'.code \in {200, 201})
          => \E a \in auditLogs' :
                /\ auditLogs' \ auditLogs = {a}
                /\ a.userId = last'.caller]_vars

\* C7: DELETE /api/users/:id by an ADMIN on their own id fails and leaves the users, the expenses
\* and the audit log as they were.
C7_NoSelfDelete ==
    [][(last'.op = "deleteUser" /\ last'.role = "ADMIN" /\ last'.target = last'.caller)
          => /\ last'.code = 400
             /\ users' = users
             /\ expenses' = expenses
             /\ auditLogs' = auditLogs]_vars

\* an admin has tried to delete their own account
C7_Witness ==
    /\ last.op = "deleteUser" /\ last.role = "ADMIN"
    /\ last.target = last.caller /\ last.code = 400

\* every expense and every audit entry references an existing user
ReferencesExist ==
    /\ \A e \in DOMAIN expenses : expenses[e].userId \in DOMAIN users
    /\ \A a \in auditLogs : a.userId \in DOMAIN users

\* C8: references always point at existing users; after a successful DELETE /api/users/:id the
\* user is gone, nothing references it, and the USER_DELETED entry has the deleting admin as actor.
C8_DeleteCascades ==
    /\ ReferencesExist
    /\ (last.op = "deleteUser" /\ last.code = 200)
          => /\ last.target \notin DOMAIN users
             /\ \A e \in DOMAIN expenses : expenses[e].userId # last.target
             /\ \A a \in auditLogs : a.userId # last.target
             /\ last.caller \in DOMAIN users
             /\ \E a \in auditLogs : /\ a.action = "USER_DELETED"
                                     /\ a.description.ref = last.target
                                     /\ a.userId = last.caller

\* the seeded employee, owner of both seeded expenses, has been deleted
C8_Witness ==
    /\ last.op = "deleteUser" /\ last.code = 200 /\ last.target = 2
    /\ DOMAIN expenses = {}

\* C9: an audit entry stays as it is in every step, or it disappears in a user deletion that
\* removes its actor.
C9_AuditLogAppendOnly ==
    [][\A a \in auditLogs :
          \/ a \in auditLogs'
          \/ /\ \A b \in auditLogs' : b.id # a.id
             /\ last'.op = "deleteUser"
             /\ a.userId = last'.target
             /\ a.userId \notin DOMAIN users']_vars

\* an entry was appended by a successful call and the four seeded entries are all still there
C9_Witness ==
    /\ last.code \in {200, 201}
    /\ Cardinality(auditLogs) = 5
    /\ \A i \in 1..4 : \E a \in auditLogs : a.id = i

\* C10: a rejection reason is written only by a status change to REJECTED.
C10_ReasonOnlyByRejection ==
    [][\A e \in DOMAIN expenses' :
          (IF e \in DOMAIN expenses
           THEN expenses'[e].rejectionReason # expenses[e].rejectionReason
           ELSE expenses'[e].rejectionReason # "")
              => (last'.op = "updateStatus" /\ expenses'[e].status = "REJECTED")]_vars

\* C11: every expense that enters the table enters it through POST /api/expenses, with status
\* PENDING and the caller as owner, whatever status or userId the body carries.
C11_CreatedPendingAndOwnedByCaller ==
    [][\A e \in DOMAIN expenses' \ DOMAIN expenses :
          /\ last'.op = "createExpense"
          /\ last'.target = e
          /\ expenses'[e].status = "PENDING"
          /\ expenses'[e].userId = last'.caller]_vars

\* an expense was created from a body that asks for status APPROVED and for another owner
C11_Witness ==
    /\ last.op = "createExpense" /\ last.code = 201
    /\ last.target \in DOMAIN expenses
    /\ last.body.status = "APPROVED"
    /\ last.body.userId \notin {0, last.caller}
\* what the caller of the login route sees of a response
loginResponseSeen(r) ==
    [code |-> r.code, error |-> r.error, message |-> r.message, token |-> r.token, user |-> r.user]

\* C12: a login with a well-formed email that matches no user and a login with an existing email
\* and a wrong password get one and the same response (401, the same error body, no token), and
\* neither issues a token nor writes an audit entry.
C12_InvalidCredentialsIndistinguishable ==
    [][(/\ last'.op = "login"
        /\ loginSchemaParse(last'.email, last'.password)
        /\ \A id \in DOMAIN users :
               users[id].email = last'.email => ~bcryptCompare(last'.password, users[id].password))
          => /\ loginResponseSeen(last') =
                    [code |-> 401, error |-> "Invalid credentials",
                     message |-> "Email or password is incorrect",
                     token |-> NoToken, user |-> NoUser]
             /\ tokens' = tokens
             /\ auditLogs' = auditLogs]_vars

\* a login with the email of an existing user and a wrong password was refused
C12_Witness ==
    /\ last.op = "login" /\ last.code = 401
    /\ \E id \in DOMAIN users :
           users[id].email = last.email /\ ~bcryptCompare(last.password, users[id].password)

\* C13: a login with the email and the password of a stored user, whose audit write the database
\* accepts, is answered 200 with a token that carries the stored id, email and role, with the
\* user without its password, and adds exactly one USER_LOGIN entry with that user as actor.
C13_ValidLoginIssuesToken ==
    [][\A id \in DOMAIN users :
          (/\ last'.op = "login"
           /\ last'.dbOk
           /\ users[id].email = last'.email
           /\ bcryptCompare(last'.password, users[id].password))
             => /\ last'.code = 200
                /\ last'.token = [userId |-> id, email |-> users[id].email, role |-> users[id].role]
                /\ last'.token \in tokens'
                /\ last'.user = [id |-> id, email |-> users[id].email,
                                 name |-> users[id].name, role |-> users[id].role]
                /\ "password" \notin DOMAIN last'.user
                /\ \E a \in auditLogs' :
                       /\ auditLogs' \ auditLogs = {a}
                       /\ a.action = "USER_LOGIN"
                       /\ a.userId = id]_vars

\* a stored user has logged in and holds the token of the response
C13_Witness ==
    /\ last.op = "login" /\ last.code = 200
    /\ last.token \in tokens
    /\ last.caller \in DOMAIN users
    /\ last.token.role = users[last.caller].role
\* every token a logout was called with is still accepted while its user exists
LoggedOutTokensAccepted ==
    \A t \in loggedOut :
        t.userId \in DOMAIN users => (t \in tokens /\ authenticateToken(t).id = t.userId)

\* C14: a successful logout changes nothing but the audit log, to which it adds one USER_LOGOUT
\* entry with the caller as actor, and the token it was called with is accepted in every later
\* state in which its user exists (the expiry of a token is outside the model).
C14_LogoutKeepsTokenValid ==
    [][/\ (last'.op = "logout" /\ last'.code = 200)
             => /\ users' = users /\ expenses' = expenses /\ tokens' = tokens
                /\ auditLogs \subseteq auditLogs'
                /\ \E a \in auditLogs' :
                       /\ auditLogs' \ auditLogs = {a}
                       /\ a.action = "USER_LOGOUT"
                       /\ a.userId = last'.caller
       /\ LoggedOutTokensAccepted']_vars

\* a protected request was served to a caller all of whose tokens have been logged out
C14_Witness ==
    /\ last.op \in {"getExpenses", "getExpense", "getAuditLogs"}
    /\ last.code = 200
    /\ \E t \in loggedOut : t.userId = last.caller
    /\ \A t \in tokens : t.userId = last.caller => t \in loggedOut
AdminOnlyOps ==
    {"updateStatus", "exportExpenses", "createUser", "updateUser", "deleteUser",
     "getAuditLogs", "exportAuditLogs"}

\* C15: every authenticated request is served with the role stored for its caller when the
\* request arrives, whatever role its token carries: an admin-only route answers 403 exactly
\* when the stored role is not ADMIN, and GET /api/expenses counts the rows the stored role sees.
C15_CurrentRoleDecides ==
    [][(last'.op \notin {"none", "login"} /\ last'.caller # 0)
          => /\ last'.caller \in DOMAIN users
             /\ last'.role = users[last'.caller].role
             /\ last'.op \in AdminOnlyOps
                   => (last'.code = 403 <=> users[last'.caller].role # "ADMIN")
             /\ (last'.op = "getExpenses" /\ last'.code = 200)
                   => last'.count =
                        Cardinality({e \in DOMAIN expenses :
                            /\ matches(expenses[e], exportWhere(last'.query))
                            /\ users[last'.caller].role = "EMPLOYEE"
                                  => expenses[e].userId = last'.caller})]_vars

\* a user promoted after login was served an admin-only route with a token that says EMPLOYEE
C15_Witness ==
    /\ last.op = "getAuditLogs" /\ last.code = 200
    /\ \E t \in tokens : t.userId = last.caller
    /\ \A t \in tokens : t.userId = last.caller => t.role = "EMPLOYEE"
\* the handlers whose audit write follows a primary write, and the audit actions they write
MutationOps ==
    {"createExpense", "updateExpense", "updateStatus", "createUser", "updateUser", "deleteUser"}

MutationActions ==
    {"EXPENSE_CREATED", "EXPENSE_UPDATED", "EXPENSE_STATUS_UPDATED",
     "USER_CREATED", "USER_UPDATED", "USER_DELETED"}

\* the primary write of the request just served is in the tables (an action formula)
MutationCommitted ==
    LET t == last'.target IN
    CASE last'.op = "createExpense" ->
            /\ t \in DOMAIN expenses' \ DOMAIN expenses
            /\ expenses'[t].amount = parseFloat(last'.body.amount).v
      [] last'.op = "updateExpense" ->
            /\ t \in DOMAIN expenses'
            /\ expenses'[t].status = "PENDING"
            /\ expenses'[t].amount = parseFloat(last'.body.amount).v
            /\ expenses'[t].category = last'.body.category
      [] last'.op = "updateStatus" ->
            /\ t \in DOMAIN expenses'
            /\ expenses'[t].status = last'.status
      [] last'.op = "createUser" ->
            /\ t \in DOMAIN users' \ DOMAIN users
            /\ users'[t].email = last'.userBody.email
      [] last'.op = "updateUser" ->
            /\ t \in DOMAIN users'
            /\ last'.userBody.role # "" => users'[t].role = last'.userBody.role
            /\ last'.userBody.email # "" => users'[t].email = last'.userBody.email
            /\ last'.userBody.name # "" => users'[t].name = last'.userBody.name
      [] last'.op = "deleteUser" ->
            /\ t \in DOMAIN users
            /\ t \notin DOMAIN users'
            /\ \A e \in DOMAIN expenses' : expenses'[e].userId # t
      [] OTHER -> FALSE

\* C16: when the audit write of an expense create/edit/status change or of a user
\* create/update/delete is refused, the primary write stays committed and no entry is added; and
\* every step that adds an entry for such a mutation has the mutation in the tables.
C16_AuditFailureKeepsMutation ==
    [][/\ (last'.op \in MutationOps /\ ~last'.dbOk)
             => (MutationCommitted /\ auditLogs' \subseteq auditLogs)
       /\ \A a \in auditLogs' \ auditLogs :
             a.action \in MutationActions => MutationCommitted]_vars

\* an expense is in the table and no audit entry tells of any creation
C16_Witness ==
    /\ last.op = "createExpense" /\ ~last.dbOk
    /\ last.target \in DOMAIN expenses
    /\ \A a \in auditLogs : a.action # "EXPENSE_CREATED"

\* C17 as stated: when the audit write after a committed primary write is refused, the caller
\* still receives the success response.
C17_AuditFailureSwallowed ==
    [][(last'.op \in MutationOps /\ ~last'.dbOk) => last'.code \in {200, 201}]_vars

\* C17 amended: when the audit write after a committed primary write is refused, the failure is
\* surfaced: the caller is answered 500 although the primary write stays committed.
C17_AuditFailureSurfaced ==
    [][(last'.op \in MutationOps /\ ~last'.dbOk)
          => (last'.code = 500 /\ MutationCommitted)]_vars

\* a status change was answered 500 and the expense carries the new status
C17_Witness ==
    /\ last.op = "updateStatus" /\ ~last.dbOk /\ last.code = 500
    /\ expenses[last.target].status = last.status
    /\ \A a \in auditLogs : a.action # "EXPENSE_STATUS_UPDATED"
\* C19: a request answered 401 (Unauthenticated) or 403 (Forbidden: role missing or ownership
\* check failed) leaves the users, the expenses and the audit log exactly as they were.
C19_AuthorizationFailuresChangeNothing ==
    [][last'.code \in {401, 403}
         => users' = users /\ expenses' = expenses /\ auditLogs' = auditLogs]_vars

\* an employee was just refused the edit of another user's expense
C19_Witness ==
    /\ last.op = "updateExpense" /\ last.code = 403 /\ last.role = "EMPLOYEE"
    /\ last.target \in DOMAIN expenses /\ expenses[last.target].userId # last.caller

EmailUnique == \A i, j \in DOMAIN users : users[i].email = users[j].email => i = j

\* the request just answered carries an email that a row other than its target holds
EmailBelongsToAnother ==
    \/ /\ last'.op = "createUser"
       /\ userSchemaParse(last'.userBody)
       /\ findUserByEmail(last'.userBody.email) # {}
    \/ /\ last'.op = "updateUser"
       /\ userUpdateSchemaParse(last'.userBody)
       /\ last'.target \in DOMAIN users
       /\ last'.userBody.email # ""
       /\ \E j \in DOMAIN users : j # last'.target /\ users[j].email = last'.userBody.email

SummaryScope ==
    {i \in DOMAIN expenses :
        /\ last.role = "EMPLOYEE" => expenses[i].userId = last.caller
        /\ expenses[i].date >= last.query.startDate
        /\ expenses[i].date <= last.query.endDate}

C21_ExportWritesCountedEntry ==
    [][last'.op \in {"exportExpenses", "exportAuditLogs"}
         => /\ last'.role # "ADMIN" => last'.code \in {401, 403}
            /\ last'.code = 200
                 => \E a \in auditLogs' :
                       /\ auditLogs' \ auditLogs = {a}
                       /\ a.action = IF last'.op = "exportExpenses" THEN "EXPENSE_EXPORT"
                                                                    ELSE "AUDIT_EXPORT"
                       /\ a.description.ref = last'.count
                       /\ last'.op = "exportAuditLogs" => last'.count <= Cardinality(auditLogs)]_vars

\* the content of an expense that an edit sets
contentOf(e) == [amount |-> e.amount, category |-> e.category, date |-> e.date, notes |-> e.notes]

\* the content a multipart body asks for
contentAsked(body) ==
    [amount |-> parseFloat(body.amount).v, category |-> body.category, date |-> body.date,
     notes |-> body.notes]

\* C22: overlapping edits of one expense are resolved by last-write-wins with no version check:
\* every edit that passed its checks is written, whatever was written since its lookup, and
\* leaves the expense with exactly its own amount, category, date and notes and status PENDING;
\* and each such edit whose audit write the database accepts is answered 200 and adds one
\* EXPENSE_UPDATED entry of its caller.
C22_LastWriteWins ==
    [][\A r \in inflight :
          r.op = "updateExpense" =>
            /\ (r.stage = "checked" /\ r \notin inflight')
                  => /\ contentOf(expenses'[r.id]) = contentAsked(r.body)
                     /\ expenses'[r.id].status = "PENDING"
            /\ (r.stage = "written" /\ r \notin inflight' /\ last'.dbOk)
                  => /\ last'.code = 200
                     /\ \E a \in auditLogs' :
                           /\ auditLogs' \ auditLogs = {a}
                           /\ a.action = "EXPENSE_UPDATED" /\ a.userId = r.caller.id]_vars

\* two edits of one expense looked the expense up before either wrote; both have written
\* and the expense holds the content of one of them, not of the other
C22_Witness ==
    \E r1, r2 \in inflight :
        /\ r1.op = "updateExpense" /\ r2.op = "updateExpense"
        /\ r1.stage = "written" /\ r2.stage = "written"
        /\ r1.id = r2.id /\ r1.existing = r2.existing
        /\ contentAsked(r1.body) # contentAsked(r2.body)
        /\ contentOf(expenses[r1.id]) = contentAsked(r2.body)
        /\ expenses[r1.id].status = "PENDING"

\* C23: a create or edit that gets to validation with an amount that is not a number, is <= 0,
\* is below 0.01 or is above 100000 is answered 400, creates or changes no expense and writes
\* no audit entry; and every stored expense has an amount between 0.01 and 100000.
C23_AmountValidatedAtBoundary ==
    [][/\ (/\ last'.op \in {"createExpense", "updateExpense"}
           /\ last'.code \notin {401, 403, 404}
           /\ amountCheck(last'.body.amount) # "ok")
             => /\ last'.code = 400
                /\ expenses' = expenses
                /\ auditLogs' = auditLogs
       /\ \A id \in DOMAIN expenses' :
             expenses'[id].amount >= MinAmount /\ expenses'[id].amount <= MaxAmount]_vars

\* C24: every reachable state has at least one user with role ADMIN.
C24_AlwaysAnAdmin == \E id \in DOMAIN users : users[id].role = "ADMIN"

\* C25: when a status change is written, the expense it decides still has the content the
\* status handler read when it looked the expense up: no edit committed in between.
C25_DecisionMatchesContentRead ==
    [][\A r \in inflight :
          (r.op = "updateStatus" /\ r.stage = "checked" /\ r \notin inflight'
             /\ r.id \in DOMAIN expenses')
            => (expenses'[r.id].status \in {"APPROVED", "REJECTED"}
                  => contentOf(expenses'[r.id]) = contentOf(r.existing))]_vars

\* C26: no request changes the owner of an existing expense: an expense created by a request
\* belongs to its caller, and every edit and status change, by the owner or by an admin,
\* leaves userId as it was.
C26_OwnerNeverChanges ==
    [][\A id \in DOMAIN expenses' :
          IF id \in DOMAIN expenses THEN expenses'[id].userId = expenses[id].userId
          ELSE expenses'[id].userId = last'.caller]_vars

\* an admin has just edited an expense of another user, with a body that names the admin as
\* userId, and the expense still belongs to that user
C26_Witness ==
    /\ last.op = "updateExpense" /\ last.code = 200 /\ last.role = "ADMIN"
    /\ last.body.userId = last.caller
    /\ expenses[last.target].userId # last.caller

\* C27: in every state an expense with a rejection reason is REJECTED: a PENDING or APPROVED
\* expense carries none.
C27_ReasonImpliesRejected ==
    \A id \in DOMAIN expenses :
        expenses[id].rejectionReason # "" => expenses[id].status = "REJECTED"

\* C28: whenever no call of checkAuth, login or logout is waiting, user is set only if a token
\* is stored; when a logout completes the token is removed and user is null, whether the
\* server call resolved or was rejected; and a checkAuth that resumes after a logout has
\* completed (no token stored any more) does not set the user.
C28_ClientSessionConsistent ==
    [][/\ (client'.calls = {} /\ client'.user # NoClientUser) => client'.token # NoClientToken
       /\ \A c \in client.calls \ client'.calls :
             /\ c.op = "logout" => (client'.token = NoClientToken /\ client'.user = NoClientUser)
             /\ (c.op = "checkAuth" /\ client.token = NoClientToken /\ client.user = NoClientUser)
                   => client'.user = NoClientUser]_vars

RECURSIVE sumCounts(_)
sumCounts(groups) ==
    IF groups = {} THEN 0
    ELSE LET g == CHOOSE x \in groups : TRUE IN g.count + sumCounts(groups \ {g})

\* C29: in every response of GET /api/analytics/summary, totalExpenses equals
\* pendingExpenses + approvedExpenses + rejectedExpenses and equals the sum of the counts of
\* the category breakdown, also when expenses are created, edited or decided while the
\* handler's queries run.
C29_SummaryCountsAddUp ==
    (last.op = "analyticsSummary" /\ last.code = 200) =>
        LET a == last.analytics IN
        /\ a.summary.totalExpenses = a.summary.pendingExpenses + a.summary.approvedExpenses
                                        + a.summary.rejectedExpenses
        /\ a.summary.totalExpenses = sumCounts(a.categoryBreakdown)

\* C30: what an EMPLOYEE is answered by GET or PUT /api/expenses/:id for an id that is not one
\* of their own expenses does not depend on whether the id exists: an id of another user's
\* expense is answered like an id of no expense, which both handlers answer with 404.
C30_ForeignExpenseLooksAbsent ==
    (/\ last.op \in {"getExpense", "updateExpense"}
     /\ last.role = "EMPLOYEE"
     /\ last.target # 0
     /\ (last.target \in DOMAIN expenses => expenses[last.target].userId # last.caller))
        => /\ last.code = 404
           /\ last.rows = <<>>

Next ==
    \/ ResponseSent
    \/ \E email \in LoginEmails, password \in LoginPasswords, dbFails \in BOOLEAN : Login(email, password, ~dbFails)
    \/ \E tok \in tokens \cup {NoToken}, dbFails \in BOOLEAN : Logout(tok, ~dbFails)
    \/ \E tok \in tokens \cup {NoToken}, q \in ListQueries : GetExpenses(tok, q)
    \/ \E tok \in tokens \cup {NoToken}, id \in ExpenseIds : GetExpense(tok, id)
    \/ \E tok \in tokens \cup {NoToken}, body \in ExpenseBodies, dbFails \in BOOLEAN :
          CreateExpense(tok, body, ~dbFails)
    \/ \E tok \in tokens \cup {NoToken}, id \in ExpenseIds, body \in ExpenseBodies, dbFails \in BOOLEAN :
          UpdateExpense(tok, id, body, ~dbFails)
    \/ \E tok \in tokens \cup {NoToken}, id \in ExpenseIds, status \in StatusInputs,
          reason \in ReasonInputs, dbFails \in BOOLEAN :
          UpdateExpenseStatus(tok, id, status, reason, ~dbFails)
    \/ \E tok \in tokens \cup {NoToken}, q \in ExportQueries, dbFails \in BOOLEAN : ExportExpenses(tok, q, ~dbFails)
    \/ \E tok \in tokens \cup {NoToken}, body \in UserBodies, dbFails \in BOOLEAN : CreateUser(tok, body, ~dbFails)
    \/ \E tok \in tokens \cup {NoToken}, id \in UserIds, body \in UserUpdates, dbFails \in BOOLEAN :
          UpdateUser(tok, id, body, ~dbFails)
    \/ \E tok \in tokens \cup {NoToken}, id \in UserIds, dbFails \in BOOLEAN : DeleteUser(tok, id, ~dbFails)
    \/ \E tok \in tokens \cup {NoToken}, q \in AuditQueries : GetAuditLogs(tok, q)
    \/ \E tok \in tokens \cup {NoToken}, q \in AuditQueries, dbFails \in BOOLEAN : ExportAuditLogs(tok, q, ~dbFails)
    \/ \E tok \in tokens \cup {NoToken}, days \in DaysInputs : GetAnalyticsSummary(tok, days)
    \/ \E tok \in tokens \cup {NoToken}, q \in RangeInputs : GetAnalyticsCategories(tok, q)
    \/ \E tok \in tokens \cup {NoToken}, months \in MonthsInputs : GetAnalyticsTrends(tok, months)
    \/ \E tok \in tokens \cup {NoToken}, limit \in LimitInputs, q \in RangeInputs :
          GetAnalyticsTopSpenders(tok, limit, q)

Spec == Init /\ [][Next]_vars

\* the user routes with overlapping requests
NextRace ==
    \/ ResponseSent
    \/ \E tok \in tokens \cup {NoToken}, body \in UserBodies : CreateUserCheck(tok, body)
    \/ \E r \in inflight, dbFails \in BOOLEAN : CreateUserWrite(r, ~dbFails)
    \/ \E tok \in tokens \cup {NoToken}, id \in UserIds, body \in UserUpdates :
          UpdateUserCheck(tok, id, body)
    \/ \E r \in inflight, dbFails \in BOOLEAN : UpdateUserWrite(r, ~dbFails)

SpecRace == Init /\ [][NextRace]_vars

\* the expense routes with overlapping requests
NextEdit ==
    \/ ResponseSent
    \/ \E tok \in tokens \cup {NoToken}, id \in ExpenseIds, body \in ExpenseBodies :
          UpdateExpenseCheck(tok, id, body)
    \/ \E r \in inflight : UpdateExpenseWrite(r)
    \/ \E r \in inflight, dbFails \in BOOLEAN : UpdateExpenseAudit(r, ~dbFails)
    \/ \E tok \in tokens \cup {NoToken}, id \in ExpenseIds, status \in StatusInputs,
          reason \in ReasonInputs : UpdateExpenseStatusCheck(tok, id, status, reason)
    \/ \E r \in inflight : UpdateExpenseStatusWrite(r)
    \/ \E r \in inflight, dbFails \in BOOLEAN : UpdateExpenseStatusAudit(r, ~dbFails)

SpecEdit == Init /\ [][NextEdit]_vars

\* the browser side: AuthContext with its calls in any order
NextClient ==
    \/ checkAuth
    \/ \E c \in client.calls, rejected \in BOOLEAN : checkAuthResumes(c, ~rejected)
    \/ \E email \in ClientEmails : login(email)
    \/ \E c \in client.calls, rejected \in BOOLEAN : loginResumes(c, ~rejected)
    \/ logout
    \/ \E c \in client.calls, rejected \in BOOLEAN : logoutResumes(c, ~rejected)

SpecClient == Init /\ [][NextClient]_vars

\* the summary running while expenses are created, edited and decided
NextSummary ==
    \/ ResponseSent
    \/ \E tok \in tokens \cup {NoToken}, days \in DaysInputs : AnalyticsSummaryStart(tok, days)
    \/ \E r \in inflight : AnalyticsSummaryCount(r)
    \/ \E r \in inflight : AnalyticsSummaryCategories(r)
    \/ \E r \in inflight : AnalyticsSummaryTrends(r)
    \/ \E r \in inflight : AnalyticsSummarySpenders(r)
    \/ \E tok \in tokens \cup {NoToken}, body \in ExpenseBodies, dbFails \in BOOLEAN :
          CreateExpense(tok, body, ~dbFails)
    \/ \E tok \in tokens \cup {NoToken}, id \in ExpenseIds, body \in ExpenseBodies, dbFails \in BOOLEAN :
          UpdateExpense(tok, id, body, ~dbFails)
    \/ \E tok \in tokens \cup {NoToken}, id \in ExpenseIds, status \in StatusInputs,
          reason \in ReasonInputs, dbFails \in BOOLEAN :
          UpdateExpenseStatus(tok, id, status, reason, ~dbFails)

SpecSummary == Init /\ [][NextSummary]_vars
====
